---- MODULE Spec2Model ----
(***************************************************************************)
(* Container build / run / deploy pipeline of the Backstage guide.         *)
(*                                                                         *)
(* The artefacts of the repository are three Dockerfiles (the root         *)
(* Dockerfile, the "Step 3" Dockerfile and the "Updated" Dockerfile of the *)
(* guide), the docker-compose topology (postgres + backstage), the         *)
(* app-config files and the docker / gcloud command lines.  They are       *)
(* modelled by what Docker, Compose, yarn and the configuration loader do  *)
(* with them:                                                              *)
(*   - a Dockerfile is a sequence of instructions, interpreted by Exec;    *)
(*   - docker-compose up builds the image and creates the two containers;  *)
(*     the daemon restarts exited containers (restart: always);            *)
(*   - the server resolves its connection parameters at process start from *)
(*     the config files its start command names and from its environment.  *)
(***************************************************************************)
EXTENDS Integers, Sequences, FiniteSets, TLC

VARIABLES
    guide,        \* position of the operator in the guide
    prodYaml,     \* app-config.production.yaml in the source tree
    backendDf,    \* packages/backend/Dockerfile in the source tree
    lastBuild,    \* log of the latest docker build
    composeImage, \* image built by docker-compose up --build
    gcrImage,     \* local image tagged gcr.io/<project>/backstage
    pushed,       \* image in the registry
    cloud,        \* the Cloud Run service
    pg,           \* postgres container
    bs,           \* backstage container
    conn,         \* connection parameters the running server resolved
    volume,       \* rows in the named volume postgres_data
    layer,        \* rows in the postgres container's writable layer
    loops,        \* backstage exits before it first served
    faults,       \* crashes / re-creations injected so far
    kept,         \* rows the database held when postgres was last re-created
    everReady,    \* postgres has been ready at some point
    everServed    \* backstage has served at some point

vars == <<guide, prodYaml, backendDf, lastBuild, composeImage, gcrImage, pushed,
          cloud, pg, bs, conn, volume, layer, loops, faults, kept, everReady,
          everServed>>

----------------------------------------------------------------------------
(* Bounds of the model *)

MaxLoops == 2
MaxFaults == 2
MaxWrites == 2

----------------------------------------------------------------------------
(* Dependency versions: the lockfile pins LockVersion; the registry may    *)
(* offer any of RegistryVersions when a range is resolved afresh.          *)

LockVersion == 1
RegistryVersions == {1, 2}

Archs == {"amd64", "arm64"}
DeployArch == "amd64"

Params == {"host", "port", "user", "password", "database"}

EnvName(p) ==
    CASE p = "host" -> "POSTGRES_HOST"
      [] p = "port" -> "POSTGRES_PORT"
      [] p = "user" -> "POSTGRES_USER"
      [] p = "password" -> "POSTGRES_PASSWORD"
      [] p = "database" -> "POSTGRES_DB"

----------------------------------------------------------------------------
(* Dockerfiles *)

Ins(op) == [op |-> op, base |-> "", tags |-> {}, cmds |-> <<>>, val |-> ""]
From(base) == [Ins("FROM") EXCEPT !.base = base]
Copy(tags) == [Ins("COPY") EXCEPT !.tags = tags]
CopyFrom(tags) == [Ins("COPYFROM") EXCEPT !.tags = tags]
Install(cmds) == [Ins("INSTALL") EXCEPT !.cmds = cmds]
Yarn(frozen, production) == [frozen |-> frozen, production |-> production]
User(u) == [Ins("USER") EXCEPT !.val = u]
Env(names) == [Ins("ENV") EXCEPT !.tags = names]
Start(cfgs, mode) == [Ins("START") EXCEPT !.cmds = cfgs, !.val = mode]

AppTree == {"manifest", "source", "config", "compiled", "prodDeps", "devDeps"}

RootDockerfile ==
    << From("node:20"),
       Copy({"manifest"}),
       Install(<<Yarn(TRUE, FALSE)>>),
       Ins("COPYALL"),
       Ins("BUILD"),
       Ins("EXPOSE"),
       Start(<<"app-config.yaml">>, "dev") >>

Step3Dockerfile ==
    << From("node:20-bullseye-slim"),
       Ins("APT"),
       Copy({"manifest"}),
       Install(<<Yarn(TRUE, TRUE)>>),
       Ins("COPYALL"),
       Ins("BUILD"),
       From("node:20-bullseye-slim"),
       CopyFrom(AppTree),
       Ins("CHOWN"),
       User("node"),
       Env({"NODE_ENV"}),
       Ins("EXPOSE"),
       Start(<<"app-config.yaml">>, "node") >>

UpdatedInstall == <<Yarn(TRUE, FALSE), Yarn(FALSE, FALSE)>>

UpdatedDockerfile ==
    << From("node:20-bullseye-slim"),
       Ins("APT"),
       Copy({"manifest"}),
       Install(UpdatedInstall),
       Ins("COPYALL"),
       From("node:20-bullseye-slim"),
       CopyFrom(AppTree),
       CopyFrom({"manifest", "compiled"}),
       Install(<<Yarn(TRUE, TRUE)>>),
       CopyFrom({"compiled", "config"}),
       Ins("CHOWN"),
       User("node"),
       Env({"NODE_ENV"}),
       Ins("EXPOSE"),
       Env({"BACKSTAGE_APP_PORT", "POSTGRES_HOST", "POSTGRES_PORT",
            "POSTGRES_USER", "POSTGRES_PASSWORD", "POSTGRES_DB"}),
       Start(<<"app-config.yaml", "app-config.production.yaml">>, "node") >>

Dockerfile(f) ==
    CASE f = "root" -> RootDockerfile
      [] f = "step3" -> Step3Dockerfile
      [] f = "updated" -> UpdatedDockerfile

----------------------------------------------------------------------------
(* docker build: the interpretation of a Dockerfile.                       *)
(* A build state holds, per stage, the artefacts in the stage (fs), the    *)
(* version in its node_modules (mods, 0 when nothing is installed) and     *)
(* whether its yarn.lock satisfies its package.json (sync).                *)

BaseTools(base) == IF base = "node:20" THEN {"toolchain"} ELSE {}

BuildInit ==
    [ok |-> TRUE, stage |-> 0, fs |-> <<{}, {}>>, mods |-> <<0, 0>>,
     sync |-> <<TRUE, TRUE>>, user |-> "root", env |-> {}, cfgs |-> <<>>,
     mode |-> "", used |-> 0, installed |-> {}]

(* The build context: the source tree, its lockfile, the config files and, *)
(* when the backend was built on the host, packages/backend/dist.          *)
Context(inp) ==
    {"manifest", "source", "config"} \cup (IF inp.hostDist THEN {"compiled"} ELSE {})

(* One yarn install command.  --frozen-lockfile fails when the lockfile    *)
(* needs an update; without it the stale ranges are resolved from the      *)
(* registry and the lockfile is rewritten.                                 *)
YarnFails(st, cmd, inp) ==
    \/ inp.net[st.used + 1]
    \/ cmd.frozen /\ ~st.sync[st.stage]

YarnVersion(st, inp) == IF st.sync[st.stage] THEN LockVersion ELSE inp.registry

YarnInstalls(st, cmd, inp) ==
    LET k == st.stage
        v == YarnVersion(st, inp)
        deps == IF cmd.production THEN {"prodDeps"} ELSE {"prodDeps", "devDeps"}
    IN [st EXCEPT !.fs[k] = (@ \ {"prodDeps", "devDeps"}) \cup deps,
                  !.mods[k] = v,
                  !.sync[k] = TRUE,
                  !.used = @ + 1,
                  !.installed = @ \cup {v}]

(* RUN a || b: the commands are tried in order until one succeeds. *)
RECURSIVE RunInstall(_, _, _, _)
RunInstall(st, cmds, j, inp) ==
    IF j > Len(cmds) THEN [st EXCEPT !.ok = FALSE]
    ELSE IF YarnFails(st, cmds[j], inp)
         THEN RunInstall([st EXCEPT !.used = @ + 1], cmds, j + 1, inp)
         ELSE YarnInstalls(st, cmds[j], inp)

ExecIns(st, ins, inp) ==
    LET k == st.stage IN
    CASE ins.op = "FROM" ->
            [st EXCEPT !.stage = k + 1, !.fs[k + 1] = BaseTools(ins.base),
                       !.user = "root", !.env = {}]
      [] ins.op = "APT" -> [st EXCEPT !.fs[k] = @ \cup {"toolchain"}]
      [] ins.op = "COPY" ->
            IF ins.tags \subseteq Context(inp)
            THEN [st EXCEPT !.fs[k] = @ \cup (Context(inp) \cap ins.tags),
                            !.sync[k] = inp.lockInSync]
            ELSE [st EXCEPT !.ok = FALSE]
      [] ins.op = "COPYALL" ->
            [st EXCEPT !.fs[k] = @ \cup Context(inp), !.sync[k] = inp.lockInSync]
      [] ins.op = "COPYFROM" ->
            IF ins.tags = AppTree \/ ins.tags \subseteq st.fs[1]
            THEN [st EXCEPT !.fs[k] = @ \cup (st.fs[1] \cap ins.tags),
                            !.mods[k] = IF "prodDeps" \in ins.tags
                                        THEN st.mods[1] ELSE @,
                            !.sync[k] = IF "manifest" \in ins.tags
                                        THEN st.sync[1] ELSE @]
            ELSE [st EXCEPT !.ok = FALSE]
      [] ins.op = "INSTALL" -> RunInstall(st, ins.cmds, 1, inp)
      [] ins.op = "BUILD" ->
            IF "devDeps" \in st.fs[k] \/ ("prodDeps" \in st.fs[k] /\ inp.toolsInProd)
            THEN [st EXCEPT !.fs[k] = @ \cup {"compiled"}]
            ELSE [st EXCEPT !.ok = FALSE]
      [] ins.op = "USER" -> [st EXCEPT !.user = ins.val]
      [] ins.op = "ENV" -> [st EXCEPT !.env = @ \cup ins.tags]
      [] ins.op = "START" -> [st EXCEPT !.cfgs = ins.cmds, !.mode = ins.val]
      [] OTHER -> st

RECURSIVE Exec(_, _, _, _)
Exec(df, i, st, inp) ==
    IF i > Len(df) \/ ~st.ok THEN st
    ELSE Exec(df, i + 1, ExecIns(st, df[i], inp), inp)

(* docker build [--platform linux/amd64]: without the flag the image has   *)
(* the architecture of the build host.                                     *)
ImageArch(platformFlag, hostArch) == IF platformFlag THEN DeployArch ELSE hostArch

NoImage == [file |-> "none"]

(* The outcome of one docker build of Dockerfile f on inputs inp: whether  *)
(* it succeeded, every version a yarn install of it installed, and the     *)
(* final stage.                                                            *)
BuildResult(f, inp) ==
    LET st == Exec(Dockerfile(f), 1, BuildInit, inp) IN
    [file |-> f,
     ok |-> st.ok,
     installed |-> st.installed,
     hostArch |-> inp.hostArch,
     stages |-> st.stage,
     user |-> st.user,
     contents |-> IF st.stage = 0 THEN {} ELSE st.fs[st.stage],
     deps |-> IF st.stage = 0 THEN 0 ELSE st.mods[st.stage],
     env |-> st.env,
     cfgs |-> st.cfgs,
     mode |-> st.mode]

(* The image a successful build tags; yaml is the                          *)
(* app-config.production.yaml of the source tree the build copies.         *)
BuildImage(r, platformFlag, yaml) ==
    [file |-> r.file,
     arch |-> ImageArch(platformFlag, r.hostArch),
     stages |-> r.stages,
     user |-> r.user,
     contents |-> r.contents,
     deps |-> r.deps,
     env |-> r.env,
     cfgs |-> r.cfgs,
     mode |-> r.mode,
     yaml |-> yaml]

BuildLog(r) == [file |-> r.file, ok |-> r.ok, installed |-> r.installed]

MaxInstallCmds == 3

BuildInputs ==
    [hostArch : Archs, lockInSync : BOOLEAN, registry : RegistryVersions,
     net : [1..MaxInstallCmds -> BOOLEAN], hostDist : BOOLEAN, toolsInProd : BOOLEAN]

(* Every outcome of building each Dockerfile, over all inputs. *)
RootResults == {BuildResult("root", inp) : inp \in BuildInputs}
Step3Results == {BuildResult("step3", inp) : inp \in BuildInputs}
UpdatedResults == {BuildResult("updated", inp) : inp \in BuildInputs}

BuildResults(f) ==
    CASE f = "root" -> RootResults
      [] f = "step3" -> Step3Results
      [] f = "updated" -> UpdatedResults

----------------------------------------------------------------------------
(* Configuration files and the docker-compose topology *)

Entry(kind, v) == [kind |-> kind, v |-> v]

(* app-config.yaml of Step 2 and app-config.production.yaml of the "Next   *)
(* Steps": every connection parameter is a ${POSTGRES_...} placeholder.    *)
AppConfigYaml == [p \in Params |-> Entry("env", EnvName(p))]

ProdYamlEnv == [p \in Params |-> Entry("env", EnvName(p))]

(* app-config.production.yaml of Step 7: literals. *)
ProdYamlLiteral ==
    [p \in Params |->
        CASE p = "host" -> Entry("lit", "your-cloud-sql-instance-ip")
          [] p = "port" -> Entry("lit", "5432")
          [] p = "user" -> Entry("lit", "backstage")
          [] p = "password" -> Entry("lit", "your-secure-password")
          [] p = "database" -> Entry("lit", "backstage_plugin_app")]

Unset == [p \in Params |-> Entry("unset", "")]

ConfigFile(name, yaml) ==
    IF name = "app-config.yaml" THEN AppConfigYaml
    ELSE CASE yaml = "literal" -> ProdYamlLiteral
           [] yaml = "env" -> ProdYamlEnv
           [] OTHER -> Unset

(* client: pg *)
DbClientSqlite == "better-sqlite3"
DbClient == "pg"

(* environment: of the postgres service *)
ComposePostgresEnv ==
    ("POSTGRES_USER" :> "backstage") @@ ("POSTGRES_PASSWORD" :> "backstage")
    @@ ("POSTGRES_DB" :> "backstage_plugin_app")

(* environment: of the backstage service *)
ComposeBackstageEnvNoHost ==
    ("POSTGRES_PORT" :> "5432") @@ ("POSTGRES_USER" :> "backstage")
    @@ ("POSTGRES_PASSWORD" :> "backstage") @@ ("POSTGRES_DB" :> "backstage_plugin_app")
ComposeBackstageEnv ==
    ("POSTGRES_HOST" :> "postgres") @@ ("POSTGRES_PORT" :> "5432")
    @@ ("POSTGRES_USER" :> "backstage") @@ ("POSTGRES_PASSWORD" :> "backstage")
    @@ ("POSTGRES_DB" :> "backstage_plugin_app")

(* ENV defaults of the Updated Dockerfile *)
ImageEnvDefaults ==
    ("BACKSTAGE_APP_PORT" :> "7007") @@ ("NODE_ENV" :> "production")
    @@ ("POSTGRES_HOST" :> "postgres") @@ ("POSTGRES_PORT" :> "5432")
    @@ ("POSTGRES_USER" :> "backstage") @@ ("POSTGRES_PASSWORD" :> "backstage")
    @@ ("POSTGRES_DB" :> "backstage_plugin_app")

PgServiceName == "postgres"
PgListenPort == "5432"

(* restart: always, on both services *)
RestartPolicyNo(svc) == "no"
RestartPolicy(svc) == "always"

(* depends_on: - postgres (short form: the dependency's container has been *)
(* started; its readiness is not awaited)                                  *)
DependsOnHealthy(state) == state = "ready"
DependsOnSatisfied(state) == state \in {"initializing", "ready", "exited"}

(* volumes: - postgres_data:/var/lib/postgresql/data; postgres:15 keeps    *)
(* its files in /var/lib/postgresql/data.                                  *)
PgDataDir == "/var/lib/postgresql/data"
VolumeMountWrong == "/var/lib/postgres/data"
VolumeMount == "/var/lib/postgresql/data"

DataInVolume == VolumeMount = PgDataDir
PgData == IF DataInVolume THEN volume ELSE layer

(* ports: - "7007:7007" against the port the server listens on (EXPOSE)    *)
ListenPort == 7007
Published(hostPort) == IF hostPort = 7007 THEN 7007 ELSE 0

----------------------------------------------------------------------------
(* Configuration loading at process start *)

RECURSIVE Effective(_, _, _, _)
(* The entry of parameter p: that of the last config file setting it. *)
Effective(cfgs, i, yaml, p) ==
    IF i = 0 THEN Entry("unset", "")
    ELSE LET e == ConfigFile(cfgs[i], yaml)[p] IN
         IF e.kind # "unset" THEN e ELSE Effective(cfgs, i - 1, yaml, p)

(* The value of parameter p and where it comes from: a literal of a config *)
(* file, the environment the runtime injects (src), an ENV default of the  *)
(* image, or nothing.                                                      *)
Resolve(image, runEnv, src, p) ==
    LET e == Effective(image.cfgs, Len(image.cfgs), image.yaml, p) IN
    CASE e.kind = "lit" -> [val |-> e.v, src |-> "literal"]
      [] e.kind = "env" /\ e.v \in DOMAIN runEnv -> [val |-> runEnv[e.v], src |-> src]
      [] e.kind = "env" /\ e.v \notin DOMAIN runEnv /\ e.v \in image.env ->
            [val |-> ImageEnvDefaults[e.v], src |-> "image"]
      [] OTHER -> [val |-> "", src |-> "missing"]

ResolveAll(image, runEnv, src) == [p \in Params |-> Resolve(image, runEnv, src, p)]

NoConn == [p \in Params |-> [val |-> "", src |-> "none"]]

(* The pg client connects when the database accepts connections and the    *)
(* parameters name it.                                                     *)
Connects(c, ready, host, user, password, database) ==
    /\ ready
    /\ c["host"].val = host
    /\ c["port"].val = PgListenPort
    /\ c["user"].val = user
    /\ c["password"].val = password
    /\ c["database"].val = database

CanServe(c) ==
    \/ DbClient # "pg"
    \/ Connects(c, pg = "ready", PgServiceName, ComposePostgresEnv["POSTGRES_USER"],
                ComposePostgresEnv["POSTGRES_PASSWORD"], ComposePostgresEnv["POSTGRES_DB"])

----------------------------------------------------------------------------
(* gcloud run deploy *)

(* --set-env-vars of Step 9 *)
Step9Env ==
    ("POSTGRES_HOST" :> "your-cloud-sql-instance-ip") @@ ("POSTGRES_PORT" :> "5432")
    @@ ("POSTGRES_USER" :> "backstage") @@ ("POSTGRES_PASSWORD" :> "your-secure-password")
    @@ ("POSTGRES_DB" :> "backstage_plugin_app")

(* --set-env-vars of the last deploy command of the command log *)
LogDeployEnv == Step9Env @@ ("BACKSTAGE_BASE_URL" :> "https://backstage.run.app")

DeployEnv(g) == IF g = "step9" THEN Step9Env ELSE LogDeployEnv

(* The Cloud SQL instance of Step 6 *)
CloudSqlHost == "your-cloud-sql-instance-ip"
CloudSqlUser == "backstage"
CloudSqlPassword == "your-secure-password"
CloudSqlDb == "backstage_plugin_app"

NoService == [state |-> "none"]

(* The revision serves when the image runs on the target's architecture    *)
(* and the server reaches the Cloud SQL instance.                          *)
Deployed(image, env) ==
    LET c == ResolveAll(image, env, "deploy") IN
    [state |-> IF /\ image.arch = DeployArch
                  /\ Connects(c, TRUE, CloudSqlHost, CloudSqlUser,
                              CloudSqlPassword, CloudSqlDb)
               THEN "serving" ELSE "failed",
     names |-> DOMAIN env,
     arch |-> image.arch,
     conn |-> c]

(* docker build command lines of Step 8 and of the command log *)
Step8Commands ==
    { [file |-> "root", platform |-> FALSE],
      [file |-> "backend", platform |-> FALSE],
      [file |-> "backend", platform |-> TRUE] }

LogCommands == { [file |-> "backend", platform |-> TRUE] }

(* build: . of the backstage service; the Dockerfile of the build context  *)
(* is the root Dockerfile or the one the guide has the operator write.     *)
ComposeDockerfiles == {"root"} \cup (IF backendDf = "none" THEN {} ELSE {backendDf})

----------------------------------------------------------------------------
Init ==
    /\ guide = "step3"
    /\ prodYaml = "stock"
    /\ backendDf = "none"
    /\ lastBuild = [file |-> "none", ok |-> TRUE, installed |-> {}]
    /\ composeImage = NoImage
    /\ gcrImage = NoImage
    /\ pushed = NoImage
    /\ cloud = NoService
    /\ pg = "absent"
    /\ bs = "absent"
    /\ conn = NoConn
    /\ volume = 0
    /\ layer = 0
    /\ loops = 0
    /\ faults = 0
    /\ kept = -1
    /\ everReady = FALSE
    /\ everServed = FALSE

topology == <<composeImage, pg, bs, conn, volume, layer, loops, faults, kept,
              everReady, everServed>>
registry == <<gcrImage, pushed, cloud>>

(* Step 3: the operator writes packages/backend/Dockerfile. *)
WriteStep3Dockerfile ==
    /\ guide = "step3"
    /\ backendDf' = "step3"
    /\ guide' = "step5"
    /\ UNCHANGED <<prodYaml, lastBuild, topology, registry>>

(* Step 5 and Next Steps 3: docker-compose up --build.  The image is       *)
(* built; postgres is created and started unless it already exists; the    *)
(* backstage container is (re-)created from the new image.                 *)
ComposeUp ==
    /\ guide \in {"step5", "next3"}
    /\ \E f \in ComposeDockerfiles : \E r \in BuildResults(f) :
          /\ lastBuild' = BuildLog(r)
          /\ IF r.ok
             THEN /\ composeImage' = BuildImage(r, FALSE, prodYaml)
                  /\ pg' = IF pg = "absent" THEN "initializing" ELSE pg
                  /\ bs' = "created"
                  /\ conn' = NoConn
                  /\ guide' = IF guide = "step5" THEN "step7" ELSE "done"
             ELSE UNCHANGED <<composeImage, pg, bs, conn, guide>>
    /\ UNCHANGED <<prodYaml, backendDf, volume, layer, loops, faults, kept,
                   everReady, everServed, registry>>

(* Compose starts the backstage container once its dependency is met. *)
ComposeStartBackstage ==
    /\ bs = "created"
    /\ DependsOnSatisfied(pg)
    /\ bs' = "starting"
    /\ UNCHANGED <<guide, prodYaml, backendDf, lastBuild, composeImage, pg, conn,
                   volume, layer, loops, faults, kept, everReady, everServed, registry>>

(* postgres finishes its startup and accepts connections. *)
PostgresReady ==
    /\ pg = "initializing"
    /\ pg' = "ready"
    /\ everReady' = TRUE
    /\ UNCHANGED <<guide, prodYaml, backendDf, lastBuild, composeImage, bs, conn,
                   volume, layer, loops, faults, kept, everServed, registry>>

(* The postgres process exits (a crash, docker stop, a host restart). *)
PostgresCrash ==
    /\ pg \in {"initializing", "ready"}
    /\ faults < MaxFaults
    /\ pg' = "exited"
    /\ faults' = faults + 1
    /\ UNCHANGED <<guide, prodYaml, backendDf, lastBuild, composeImage, bs, conn,
                   volume, layer, loops, kept, everReady, everServed, registry>>

(* restart: always *)
PostgresRestart ==
    /\ pg = "exited"
    /\ RestartPolicy("postgres") = "always"
    /\ pg' = "initializing"
    /\ UNCHANGED <<guide, prodYaml, backendDf, lastBuild, composeImage, bs, conn,
                   volume, layer, loops, faults, kept, everReady, everServed, registry>>

(* The postgres container is removed and created anew: its writable layer  *)
(* is gone, the named volume is mounted again.                             *)
PostgresRecreate ==
    /\ pg # "absent"
    /\ faults < MaxFaults
    /\ pg' = "initializing"
    /\ layer' = 0
    /\ kept' = PgData
    /\ faults' = faults + 1
    /\ UNCHANGED <<guide, prodYaml, backendDf, lastBuild, composeImage, bs, conn,
                   volume, loops, everReady, everServed, registry>>

(* The server process starts: it loads its configuration and connects to   *)
(* the database; it serves if that succeeds and exits otherwise.           *)
BackstageConnect ==
    /\ bs = "starting"
    /\ conn' = ResolveAll(composeImage, ComposeBackstageEnv, "compose")
    /\ IF CanServe(conn')
       THEN /\ bs' = "serving"
            /\ everServed' = TRUE
            /\ loops' = loops
       ELSE /\ bs' = "exited"
            /\ everServed' = everServed
            /\ loops' = IF ~everServed /\ loops < MaxLoops THEN loops + 1 ELSE loops
    /\ UNCHANGED <<guide, prodYaml, backendDf, lastBuild, composeImage, pg,
                   volume, layer, faults, kept, everReady, registry>>

(* The server process exits while serving. *)
BackstageCrash ==
    /\ bs = "serving"
    /\ faults < MaxFaults
    /\ bs' = "exited"
    /\ faults' = faults + 1
    /\ UNCHANGED <<guide, prodYaml, backendDf, lastBuild, composeImage, pg, conn,
                   volume, layer, loops, kept, everReady, everServed, registry>>

(* restart: always *)
BackstageRestart ==
    /\ bs = "exited"
    /\ RestartPolicy("backstage") = "always"
    /\ bs' = "starting"
    /\ UNCHANGED <<guide, prodYaml, backendDf, lastBuild, composeImage, pg, conn,
                   volume, layer, loops, faults, kept, everReady, everServed, registry>>

(* The serving server commits a row. *)
Write ==
    /\ bs = "serving"
    /\ DbClient = "pg"
    /\ pg = "ready"
    /\ PgData < MaxWrites
    /\ IF DataInVolume
       THEN volume' = volume + 1 /\ layer' = layer
       ELSE layer' = layer + 1 /\ volume' = volume
    /\ UNCHANGED <<guide, prodYaml, backendDf, lastBuild, composeImage, pg, bs, conn,
                   loops, faults, kept, everReady, everServed, registry>>

(* Step 7: app-config.production.yaml with the Cloud SQL literals. *)
WriteProdYamlStep7 ==
    /\ guide = "step7"
    /\ prodYaml' = "literal"
    /\ guide' = "step8"
    /\ UNCHANGED <<backendDf, lastBuild, topology, registry>>

(* Step 8 and the command log: docker build -t gcr.io/... *)
DockerBuild ==
    /\ guide \in {"step8", "logbuild"}
    /\ \E b \in (IF guide = "step8" THEN Step8Commands ELSE LogCommands) :
       \E r \in BuildResults(IF b.file = "root" THEN "root" ELSE backendDf) :
          /\ lastBuild' = BuildLog(r)
          /\ IF r.ok
             THEN /\ gcrImage' = BuildImage(r, b.platform, prodYaml)
                  /\ guide' = IF guide = "step8" THEN "push8" ELSE "logpush"
             ELSE UNCHANGED <<gcrImage, guide>>
    /\ UNCHANGED <<prodYaml, backendDf, topology, pushed, cloud>>

(* docker push gcr.io/... *)
DockerPush ==
    /\ guide \in {"push8", "logpush"}
    /\ pushed' = gcrImage
    /\ guide' = IF guide = "push8" THEN "step9" ELSE "logdeploy"
    /\ UNCHANGED <<prodYaml, backendDf, lastBuild, topology, gcrImage, cloud>>

(* Step 9 and the command log: gcloud run deploy --image gcr.io/... *)
Deploy ==
    /\ guide \in {"step9", "logdeploy"}
    /\ cloud' = Deployed(pushed, DeployEnv(guide))
    /\ guide' = IF guide = "step9" THEN "logbuild" ELSE "update"
    /\ UNCHANGED <<prodYaml, backendDf, lastBuild, topology, gcrImage, pushed>>

(* The Updated Dockerfile replaces packages/backend/Dockerfile. *)
WriteUpdatedDockerfile ==
    /\ guide = "update"
    /\ backendDf' = "updated"
    /\ guide' = "next1"
    /\ UNCHANGED <<prodYaml, lastBuild, topology, registry>>

(* Next Steps 1: app-config.production.yaml with the placeholders. *)
WriteProdYamlEnv ==
    /\ guide = "next1"
    /\ prodYaml' = "env"
    /\ guide' = "next3"
    /\ UNCHANGED <<backendDf, lastBuild, topology, registry>>

Next ==
    \/ WriteStep3Dockerfile
    \/ ComposeUp
    \/ ComposeStartBackstage
    \/ PostgresReady
    \/ PostgresCrash
    \/ PostgresRestart
    \/ PostgresRecreate
    \/ BackstageConnect
    \/ BackstageCrash
    \/ BackstageRestart
    \/ Write
    \/ WriteProdYamlStep7
    \/ DockerBuild
    \/ DockerPush
    \/ Deploy
    \/ WriteUpdatedDockerfile
    \/ WriteProdYamlEnv

Spec == Init /\ [][Next]_vars

(* The daemon and the processes it runs make progress; the operator and    *)
(* the faults need not.                                                    *)
FairSpec ==
    /\ Spec
    /\ WF_vars(ComposeStartBackstage)
    /\ WF_vars(BackstageConnect)
    /\ WF_vars(BackstageRestart)
    /\ WF_vars(PostgresRestart)
    /\ WF_vars(PostgresReady)

----------------------------------------------------------------------------
(* Properties *)

Images == {composeImage, gcrImage, pushed} \ {NoImage}

ProductionMode(image) == image # NoImage /\ "NODE_ENV" \in image.env

Port7007Accepts == bs = "serving" /\ Published(7007) = ListenPort

C2_OnlyDeclaredEnvironment ==
    (conn # NoConn /\ ProductionMode(composeImage)) =>
        \A p \in Params :
            /\ conn[p].src = "compose"
            /\ EnvName(p) \in DOMAIN ComposeBackstageEnv
            /\ conn[p].val = ComposeBackstageEnv[EnvName(p)]

C2_Witness ==
    /\ bs = "serving"
    /\ composeImage.file = "updated"
    /\ composeImage.yaml = "env"
    /\ EnvName("host") \in composeImage.env
    /\ conn["host"] = [val |-> "postgres", src |-> "compose"]

(* C3: with the daemon restarting exited containers, if postgres           *)
(* eventually is ready and stays ready (and the server process is not      *)
(* killed for ever), backstage eventually serves on the published port     *)
(* 7007 and stays there.                                                   *)
C3_EventuallyServing ==
    (<>[](pg = "ready") /\ <>[][~BackstageCrash]_vars) => <>[]Port7007Accepts

C3_Witness == Port7007Accepts /\ pg = "ready" /\ loops > 0

(* C4: in every image the repository builds the start command runs as a    *)
(* user other than root.                                                   *)
C4_NonRootInEveryImage == \A image \in Images : image.user # "root"

(* C5: every image is built in two stages and its final stage holds no     *)
(* compile-time toolchain, no development dependencies and no uncompiled   *)
(* source tree.                                                            *)
C5_FinalStageMinimal ==
    \A image \in Images :
        /\ image.stages = 2
        /\ image.contents \cap {"toolchain", "devDeps", "source"} = {}

(* C6: every yarn install of every build, on the fallback path too,        *)
(* installs exactly the versions the lockfile pins.                        *)
C6_LockfilePinned == lastBuild.installed \subseteq {LockVersion}

(* C7: every image that is pushed and deployed has the architecture of the *)
(* deploy target, whatever the architecture of the build host.             *)
C7_PushedImageHasDeployArch ==
    /\ pushed # NoImage => pushed.arch = DeployArch
    /\ cloud # NoService => cloud.arch = DeployArch

(* C8: the deploy command injects exactly the environment-variable names   *)
(* the compose backstage service declares, and the deployed service        *)
(* reaches the database with the injected values and serves.               *)
C8_SameEnvironmentContract ==
    cloud # NoService =>
        /\ cloud.names = DOMAIN ComposeBackstageEnv
        /\ \A p \in Params : cloud.conn[p].src = "deploy"
        /\ cloud.state = "serving"

(* C9: the rows the database holds are never lost, whatever containers     *)
(* stop, crash, restart or are created anew: the data the postgres         *)
(* container sees never shrinks, and after a re-creation it still holds    *)
(* the rows it held before.                                                *)
C9_VolumeOutlivesContainers ==
    /\ [](kept >= 0 => PgData >= kept)
    /\ [][PgData' >= PgData]_vars

C9_Witness == kept > 0 /\ pg = "ready" /\ PgData >= kept /\ layer = 0

====
